---- MODULE Spec2Model ----
(***************************************************************************)
(* Service Bus secret rotation (functions/infrastructure/function_app.py): *)
(* one SecretRotationManager instance, its lazily built clients, the       *)
(* Service Bus namespace keys and the Key Vault secrets it acts on, the    *)
(* control position of the invocation that is running, and the timer,     *)
(* manual-rotation and health handlers that call it.  Beside it, each     *)
(* under a specification of its own: the ServiceBusManager and the        *)
(* notification timer of functions/advanced/function_app.py, the          *)
(* retry_with_logging decorator of functions/common/decorators.py, the    *)
(* policy structure validator of tests/conftest.py, and the module-level  *)
(* trigger counters of the two apps.                                       *)
(***************************************************************************)
EXTENDS Integers, Sequences, FiniteSets, TLC

\* ---------------------------------------------------------------- bounds
\* Number of perform_rotation / test_connections invocations explored.
MaxInvocations == 2

\* ------------------------------------------------------------- constants
PropagationDelay == 30
GraceDelay == 300

None == "None"

FunctionAppAccess ==
  [name |-> "FunctionAppAccess",
   secret_name |-> "servicebus-function-app-connection-string"]
ReadOnlyAccess ==
  [name |-> "ReadOnlyAccess",
   secret_name |-> "servicebus-read-only-connection-string"]
AdminAccess ==
  [name |-> "AdminAccess",
   secret_name |-> "servicebus-admin-connection-string"]

RuleNames == {"FunctionAppAccess", "ReadOnlyAccess", "AdminAccess"}
SecretNames == {FunctionAppAccess.secret_name, ReadOnlyAccess.secret_name,
                AdminAccess.secret_name}

\* Variant: the admin rule is put in front of the list.
AuthRulesFor_AdminFirst(rotate_admin) ==
  IF rotate_admin
    THEN <<AdminAccess, FunctionAppAccess, ReadOnlyAccess>>
    ELSE <<FunctionAppAccess, ReadOnlyAccess>>

\* SecretRotationManager.__init__: the rule list built from ROTATE_ADMIN_ACCESS.
AuthRulesFor(rotate_admin) ==
  IF rotate_admin
    THEN <<FunctionAppAccess, ReadOnlyAccess, AdminAccess>>
    ELSE <<FunctionAppAccess, ReadOnlyAccess>>

VARIABLES
  \* configuration read once by __init__
  subscription_id, key_vault_uri, rotation_enabled, auth_rules,
  \* memoized handles of the manager, and how often each was constructed
  credential, servicebus_client, keyvault_client, constructions,
  \* the managed services: key versions per rule, secret values per name
  sb_keys, vault,
  \* wall clock (advanced by time.sleep)
  now,
  \* the running invocation: position, which operation, how it ended
  pc, op, outcome, invocations,
  \* locals of perform_rotation
  results, start_time, idx, keys, secret_updated,
  \* locals of test_connections
  conn_results,
  \* observation: external calls of the running invocation, in order, and
  \* per rule how its rotate / store step ended in this invocation
  calls, rule_status,
  \* observation: rotation_id and success of every report returned so far
  history,
  \* the two function handlers that call perform_rotation on the shared
  \* module-level manager, each with the locals of its own invocation
  handler,
  \* rotation_health: which test_connections call it has answered, and how
  health,
  \* the advanced app: service_bus_manager, the imported Service Bus
  \* module, the queue, and the running policy_notification_timer
  sbm,
  \* PolicyTestHelper.validate_policy_structure: its argument and result
  policy_check,
  \* one call of a wrapper made by retry_with_logging: the decorator's
  \* arguments, the loop position, and what has happened so far
  retry,
  \* the module-level rotation_counter and message_counter, and the worker
  \* threads running handlers of the two apps
  counters

config == <<subscription_id, key_vault_uri, rotation_enabled, auth_rules>>
handles == <<credential, servicebus_client, keyvault_client, constructions>>
services == <<sb_keys, vault>>
control == <<pc, op, outcome, invocations>>
rot_locals == <<results, start_time, idx, keys, secret_updated>>
observed == <<calls, rule_status>>
manager == <<config, handles, services, now, control, rot_locals,
            conn_results, observed, history, handler>>
\* what lives outside the manager and the two rotation handlers
apps == <<health, sbm, policy_check, retry, counters>>
vars == <<manager, apps>>

\* ------------------------------------------------------------ report data
NoKeys == [rule |-> "", primary |-> 0, secondary |-> 0]

\* datetime.isoformat(): a non-empty string that determines the instant.
isoformat(t) == <<t>>

\* perform_rotation, the initial `results` dictionary.
InitialResults(id, t) ==
  [rotation_id |-> id,
   start_time |-> isoformat(t),
   namespace |-> "sb-azpolicy-dev-eastus-001",
   resource_group |-> "rg-azpolicy-dev-eastus",
   rules_rotated |-> <<>>,
   errors |-> <<>>,
   success |-> FALSE,
   end_time |-> <<>>,
   duration_seconds |-> 0]

ReportFields == {"rotation_id", "start_time", "namespace", "resource_group",
                 "rules_rotated", "errors", "success", "end_time",
                 "duration_seconds"}

\* The four error strings perform_rotation appends, by kind and rule.
DisabledError == [kind |-> "disabled", rule |-> ""]
RotateError(rule_name) == [kind |-> "rotate", rule |-> rule_name]
KeyVaultError(rule_name) == [kind |-> "keyvault", rule |-> rule_name]
CriticalError == [kind |-> "critical", rule |-> ""]

RotationRuleResult(rule_config, t) ==
  [rule_name |-> rule_config.name,
   secret_name |-> rule_config.secret_name,
   rotated_at |-> isoformat(t),
   status |-> "success"]

\* end_time / duration_seconds assignments shared by the three return paths.
Stamp(r, start, t) ==
  [r EXCEPT !.end_time = isoformat(t), !.duration_seconds = t - start]

\* Variant: success decided from the outcomes alone.
DetermineSuccess_IgnoresErrors(r) == Len(r.rules_rotated) > 0

\* "Determine overall success".
DetermineSuccess(r) == Len(r.rules_rotated) > 0 /\ Len(r.errors) = 0

Finalize(r, start, t) ==
  Stamp([r EXCEPT !.success = DetermineSuccess(r)], start, t)

\* Variant: the outer handler lets the exception through.
CriticalHandler_Reraises(r, start, t) ==
  [outcome |-> "raised", results |-> r]

\* the outer `except Exception` of perform_rotation: record and return.
CriticalHandler(r, start, t) ==
  [outcome |-> "returned",
   results |-> Stamp([r EXCEPT !.errors = Append(@, CriticalError)],
                     start, t)]

\* What is remembered of a report handed to the caller.
Handed(r) == [rotation_id |-> r.rotation_id, success |-> r.success]

\* ------------------------------------------------------------ call log
\* One entry per call made: what, for which rule, and whether it returned
\* (ok) or raised.
Call(o, rule, key_type, secs, ok) ==
  [op |-> o, rule |-> rule, key_type |-> key_type, secs |-> secs, ok |-> ok]
RegenerateCall(rule, key_type, ok) ==
  Call("regenerate_keys", rule, key_type, 0, ok)
ListKeysCall(rule, ok) == Call("list_keys", rule, "", 0, ok)
SleepCall(rule, secs) == Call("sleep", rule, "", secs, TRUE)
SetSecretCall(rule, ok) == Call("set_secret", rule, "", 0, ok)
GetNamespaceCall(ok) == Call("namespaces.get", "", "", 0, ok)
ListSecretsCall(ok) == Call("list_properties_of_secrets", "", "", 0, ok)

\* ------------------------------------------------------- lazy handles
\* Variant: the client is built on every call, the stored one is ignored.
get_servicebus_client_NoMemo ==
  IF subscription_id = None
    THEN {[ok |-> FALSE, credential |-> credential,
           client |-> servicebus_client, built |-> {}]}
  ELSE
    {[ok |-> FALSE, credential |-> credential, client |-> servicebus_client,
      built |-> {}]}
    \cup
    {[ok |-> TRUE, credential |-> "cred", client |-> "sb",
      built |-> (IF credential = None THEN {"credential"} ELSE {})
                  \cup {"servicebus_client"}]}

\* Possible results of _get_servicebus_client: the handles afterwards and
\* whether it returned (ok) or raised.
get_servicebus_client ==
  IF servicebus_client # None
    THEN {[ok |-> TRUE, credential |-> credential,
           client |-> servicebus_client, built |-> {}]}
  ELSE IF subscription_id = None
    THEN {[ok |-> FALSE, credential |-> credential,
           client |-> None, built |-> {}]}
  ELSE
    \* import error or DefaultAzureCredential() raising
    {[ok |-> FALSE, credential |-> credential, client |-> None,
      built |-> {}]}
    \cup
    \* ServiceBusManagementClient(...) raising, after the credential was kept
    {[ok |-> FALSE, credential |-> "cred", client |-> None,
      built |-> IF credential = None THEN {"credential"} ELSE {}]}
    \cup
    {[ok |-> TRUE, credential |-> "cred", client |-> "sb",
      built |-> (IF credential = None THEN {"credential"} ELSE {})
                  \cup {"servicebus_client"}]}

\* Possible results of _get_keyvault_client.
get_keyvault_client ==
  IF keyvault_client # None
    THEN {[ok |-> TRUE, credential |-> credential,
           client |-> keyvault_client, built |-> {}]}
  ELSE IF key_vault_uri = None
    THEN {[ok |-> FALSE, credential |-> credential,
           client |-> None, built |-> {}]}
  ELSE
    {[ok |-> FALSE, credential |-> credential, client |-> None,
      built |-> {}]}
    \cup
    {[ok |-> FALSE, credential |-> "cred", client |-> None,
      built |-> IF credential = None THEN {"credential"} ELSE {}]}
    \cup
    {[ok |-> TRUE, credential |-> "cred", client |-> "kv",
      built |-> (IF credential = None THEN {"credential"} ELSE {})
                  \cup {"keyvault_client"}]}

Built(c, built) ==
  [h \in DOMAIN c |-> IF h \in built THEN c[h] + 1 ELSE c[h]]

\* ------------------------------------------------------ the handlers
\* service_bus_secret_rotation (timer trigger) and manual_rotation
\* (POST /rotate), both calling rotation_manager.perform_rotation().
Handlers == {"timer", "manual"}

\* A handler that has not been triggered.
IdleHandler ==
  [pc |-> "idle", idx |-> 1, results |-> InitialResults(0, 0),
   keys |-> NoKeys, invoked |-> 0, outcome |-> "",
   response |-> [status_code |-> 0, body |-> <<>>],
   rule_status |-> [r \in RuleNames |-> "pending"]]

\* rotation_health before its first request.
NoHealth == [answered |-> 0, response |-> [status_code |-> 0, body |-> <<>>]]

\* ServiceBusManager.__init__ and the module-level state of the advanced
\* app at import time: nothing imported, no client, nothing sent.
NewServiceBusManager(cs) ==
  [connection_string |-> cs, imported |-> FALSE, client |-> None,
   queue |-> 0, pc |-> "idle", triggers |-> 0, send_calls |-> 0,
   ret |-> "none", failure |-> "", handed |-> FALSE, ended |-> ""]

\* ------------------------------------------------------------------ Init
\* The module-level rotation_manager after SecretRotationManager(), under
\* every setting of the environment it reads.
InitManager ==
  /\ subscription_id \in {None, "sub"}
  /\ key_vault_uri \in {None, "https://kv"}
  /\ rotation_enabled \in BOOLEAN
  /\ \E rotate_admin \in BOOLEAN : auth_rules = AuthRulesFor(rotate_admin)
  /\ credential = None
  /\ servicebus_client = None
  /\ keyvault_client = None
  /\ constructions = [h \in {"credential", "servicebus_client",
                             "keyvault_client"} |-> 0]
  /\ sb_keys = [r \in RuleNames |-> [primary |-> 0, secondary |-> 0]]
  /\ vault = [s \in SecretNames |-> NoKeys]
  /\ now = 0
  /\ pc = "idle"
  /\ op = ""
  /\ outcome = ""
  /\ invocations = 0
  /\ results = InitialResults(0, 0)
  /\ start_time = 0
  /\ idx = 1
  /\ keys = NoKeys
  /\ secret_updated = "none"
  /\ conn_results = [service_bus |-> [status |-> "unknown", error |-> None],
                     key_vault |-> [status |-> "unknown", error |-> None]]
  /\ calls = <<>>
  /\ rule_status = [r \in RuleNames |-> "pending"]
  /\ history = <<>>
  /\ handler = [t \in Handlers |-> IdleHandler]

\* The manager with every setting present and the default two rules.
InitManagerConfigured ==
  /\ InitManager
  /\ subscription_id # None
  /\ key_vault_uri # None
  /\ rotation_enabled
  /\ auth_rules = AuthRulesFor(FALSE)

HealthIdle == health = NoHealth
ServiceBusIdle == sbm = NewServiceBusManager(None)

PolicyCheckIdle ==
  policy_check = [pc |-> "idle", policy |-> <<>>, errors |-> <<>>]

\* A wrapper made by retry_with_logging(max_retries, delay_seconds,
\* backoff_multiplier), not yet called.
NewRetry(max_retries, delay_seconds, backoff_multiplier) ==
  [max_retries |-> max_retries, delay_seconds |-> delay_seconds,
   backoff_multiplier |-> backoff_multiplier,
   pc |-> "idle", attempt |-> 0, trace |-> <<>>, result |-> "none"]
RetryIdle == retry = NewRetry(3, 1, 2)

\* rotation_counter = 0 and message_counter = 0 at import, no handler
\* running.
Apps == {"infrastructure", "advanced"}
Threads == {1, 2}
CountersIdle ==
  counters = [value |-> [a \in Apps |-> 0],
              triggered |-> [a \in Apps |-> 0],
              seen |-> [a \in Apps |-> 0],
              thread |-> [t \in Threads |->
                            [pc |-> "idle", app |-> "", loaded |-> 0]]]

Init ==
  /\ InitManager
  /\ HealthIdle
  /\ ServiceBusIdle
  /\ PolicyCheckIdle
  /\ RetryIdle
  /\ CountersIdle

\* ------------------------------------------------- perform_rotation
\* Variant: the rule list is walked from its end.
CurrentRule_Reversed == auth_rules[Len(auth_rules) + 1 - idx]

\* The `rule_config` of the running iteration.
CurrentRule == auth_rules[idx]

\* Variant: the enabled flag is not consulted.
RotationDisabled_Unchecked == FALSE

\* `if not self.rotation_enabled:`
RotationDisabled == ~rotation_enabled

\* `rotation_id`, `start_time`, `results` and the disabled short-circuit.
PerformRotationStart ==
  /\ pc \in {"idle", "done"}
  /\ invocations < MaxInvocations
  /\ invocations' = invocations + 1
  /\ op' = "perform_rotation"
  /\ start_time' = now
  /\ idx' = 1
  /\ keys' = NoKeys
  /\ secret_updated' = "none"
  /\ calls' = <<>>
  /\ rule_status' = [r \in RuleNames |-> "pending"]
  /\ IF RotationDisabled
       THEN /\ results' = Stamp([InitialResults(invocations + 1, now)
                                   EXCEPT !.errors = Append(@, DisabledError)],
                                now, now)
            /\ pc' = "done"
            /\ outcome' = "returned"
            /\ history' = Append(history, Handed(results'))
       ELSE /\ results' = InitialResults(invocations + 1, now)
            /\ pc' = "loop"
            /\ outcome' = ""
            /\ UNCHANGED history
  /\ UNCHANGED <<apps, handler, config, handles, services, now, conn_results>>

\* `for rule_config in self.auth_rules:` with a rule left; enters the inner try.
LoopNext ==
  /\ pc = "loop"
  /\ idx <= Len(auth_rules)
  /\ pc' = "rotate_client"
  /\ rule_status' = [rule_status EXCEPT ![CurrentRule.name] = "rotating"]
  /\ UNCHANGED <<apps, handler, history, config, handles, services, now, op, outcome, invocations,
                 rot_locals, conn_results, calls>>

\* An exception raised under the outer try but outside the per-rule try
\* (the rule_config lookups at the head of an iteration): the outer handler
\* records it and returns the report.
UnexpectedDefect ==
  /\ pc = "loop"
  /\ idx <= Len(auth_rules)
  /\ LET h == CriticalHandler(results, start_time, now) IN
       /\ results' = h.results
       /\ outcome' = h.outcome
  /\ pc' = "done"
  /\ rule_status' = [rule_status EXCEPT ![CurrentRule.name] = "escaped"]
  /\ history' = Append(history, Handed(results'))
  /\ UNCHANGED <<apps, handler, config, handles, services, now, op, invocations,
                 start_time, idx, keys, secret_updated, conn_results,
                 calls>>

\* Loop exhausted: "Determine overall success", timestamps, return.
LoopEnd ==
  /\ pc = "loop"
  /\ idx > Len(auth_rules)
  /\ results' = Finalize(results, start_time, now)
  /\ pc' = "done"
  /\ outcome' = "returned"
  /\ history' = Append(history, Handed(results'))
  /\ UNCHANGED <<apps, handler, config, handles, services, now, op, invocations,
                 start_time, idx, keys, secret_updated, conn_results,
                 observed>>

\* Variant: the per-rule handler only logs.
RuleHandler_LogsOnly(r, rule_name) == r

\* The per-rule `except Exception`: one error string, then the next rule.
RuleHandler(r, rule_name) ==
  [r EXCEPT !.errors = Append(@, RotateError(rule_name))]

\* Variant: the secondary key is regenerated before the primary was read
\* back and the grace period has passed.
RotateSteps_NoGrace ==
  << [at |-> "regenerate_primary", do |-> "regenerate_keys",
      key_type |-> "PrimaryKey", secs |-> 0],
     [at |-> "sleep_primary", do |-> "sleep",
      key_type |-> "", secs |-> PropagationDelay],
     [at |-> "regenerate_secondary", do |-> "regenerate_keys",
      key_type |-> "SecondaryKey", secs |-> 0],
     [at |-> "sleep_secondary", do |-> "sleep",
      key_type |-> "", secs |-> PropagationDelay],
     [at |-> "list_final_keys", do |-> "list_keys",
      key_type |-> "", secs |-> 0] >>

\* Variant: one more propagation wait after the final fetch.
RotateSteps_ExtraWait ==
  << [at |-> "regenerate_primary", do |-> "regenerate_keys",
      key_type |-> "PrimaryKey", secs |-> 0],
     [at |-> "sleep_primary", do |-> "sleep",
      key_type |-> "", secs |-> PropagationDelay],
     [at |-> "list_keys", do |-> "list_keys",
      key_type |-> "", secs |-> 0],
     [at |-> "sleep_grace", do |-> "sleep",
      key_type |-> "", secs |-> GraceDelay],
     [at |-> "regenerate_secondary", do |-> "regenerate_keys",
      key_type |-> "SecondaryKey", secs |-> 0],
     [at |-> "sleep_secondary", do |-> "sleep",
      key_type |-> "", secs |-> PropagationDelay],
     [at |-> "sleep_final", do |-> "sleep",
      key_type |-> "", secs |-> PropagationDelay],
     [at |-> "list_final_keys", do |-> "list_keys",
      key_type |-> "", secs |-> 0] >>

\* The order of the steps after the client is obtained: position, then what
\* the step does, then the position that follows it.
RotateSteps ==
  << [at |-> "regenerate_primary", do |-> "regenerate_keys",
      key_type |-> "PrimaryKey", secs |-> 0],
     [at |-> "sleep_primary", do |-> "sleep",
      key_type |-> "", secs |-> PropagationDelay],
     [at |-> "list_keys", do |-> "list_keys",
      key_type |-> "", secs |-> 0],
     [at |-> "sleep_grace", do |-> "sleep",
      key_type |-> "", secs |-> GraceDelay],
     [at |-> "regenerate_secondary", do |-> "regenerate_keys",
      key_type |-> "SecondaryKey", secs |-> 0],
     [at |-> "sleep_secondary", do |-> "sleep",
      key_type |-> "", secs |-> PropagationDelay],
     [at |-> "list_final_keys", do |-> "list_keys",
      key_type |-> "", secs |-> 0] >>

StepAt(p) == CHOOSE i \in 1..Len(RotateSteps) : RotateSteps[i].at = p
IsRotatePc(p) == \E i \in 1..Len(RotateSteps) : RotateSteps[i].at = p
\* Position after step i returned normally; after the last one the tuple is
\* returned to perform_rotation, which calls update_keyvault_secret.
NextPc(i) ==
  IF i < Len(RotateSteps) THEN RotateSteps[i + 1].at ELSE "store_client"

\* Variant: the exception is swallowed and the sequence goes on.
RotateRaised_Swallowed ==
  /\ pc' = IF IsRotatePc(pc) THEN NextPc(StepAt(pc)) ELSE RotateSteps[1].at
  /\ UNCHANGED <<results, rule_status, idx>>

\* Variant: the exception ends the loop instead of the iteration.
RotateRaised_EndsLoop ==
  /\ results' = RuleHandler(results, CurrentRule.name)
  /\ rule_status' = [rule_status EXCEPT ![CurrentRule.name] = "rotate_raised"]
  /\ idx' = Len(auth_rules) + 1
  /\ pc' = "loop"

\* rotate_authorization_rule_keys raised (logged and re-raised by its own
\* handler) and perform_rotation's per-rule handler caught it.
RotateRaised ==
  /\ results' = RuleHandler(results, CurrentRule.name)
  /\ rule_status' = [rule_status EXCEPT ![CurrentRule.name] = "rotate_raised"]
  /\ idx' = idx + 1
  /\ pc' = "loop"

\* ----------------------------------- rotate_authorization_rule_keys
\* `client = self._get_servicebus_client()`
RotateGetClient ==
  /\ pc = "rotate_client"
  /\ \E g \in get_servicebus_client :
       /\ credential' = g.credential
       /\ servicebus_client' = g.client
       /\ constructions' = Built(constructions, g.built)
       /\ IF g.ok
            THEN /\ pc' = "regenerate_primary"
                 /\ UNCHANGED <<results, idx, rule_status>>
            ELSE RotateRaised
  /\ UNCHANGED <<apps, handler, history, config, keyvault_client, services, now, op, outcome,
                 invocations, start_time, keys, secret_updated,
                 conn_results, calls>>

\* Variant: a key that was rotated before is left as it is.
regenerate_keys_Once(k, key_type) ==
  IF key_type = "PrimaryKey"
    THEN [k EXCEPT !.primary = IF @ = 0 THEN 1 ELSE @]
    ELSE [k EXCEPT !.secondary = IF @ = 0 THEN 1 ELSE @]

\* The namespace's answer to regenerate_keys: a fresh key of that type.
regenerate_keys(k, key_type) ==
  IF key_type = "PrimaryKey"
    THEN [k EXCEPT !.primary = @ + 1]
    ELSE [k EXCEPT !.secondary = @ + 1]

\* client.namespaces.regenerate_keys(..., parameters={"key_type": ...})
RegenerateKeys ==
  /\ IsRotatePc(pc)
  /\ LET i == StepAt(pc)
         st == RotateSteps[i]
         rule == CurrentRule.name IN
       /\ st.do = "regenerate_keys"
       /\ \E ok \in BOOLEAN :
            /\ calls' = Append(calls, RegenerateCall(rule, st.key_type, ok))
            /\ IF ok
                 THEN /\ sb_keys' =
                           [sb_keys EXCEPT
                              ![rule] = regenerate_keys(@, st.key_type)]
                      /\ pc' = NextPc(i)
                      /\ UNCHANGED <<results, idx, rule_status>>
                 ELSE /\ RotateRaised
                      /\ UNCHANGED sb_keys
  /\ UNCHANGED <<apps, handler, history, config, handles, vault, now, op, outcome, invocations,
                 start_time, keys, secret_updated, conn_results>>

\* time.sleep(30) / time.sleep(300)
Sleep ==
  /\ IsRotatePc(pc)
  /\ LET i == StepAt(pc)
         st == RotateSteps[i] IN
       /\ st.do = "sleep"
       /\ now' = now + st.secs
       /\ calls' = Append(calls, SleepCall(CurrentRule.name, st.secs))
       /\ pc' = NextPc(i)
  /\ UNCHANGED <<apps, handler, history, config, handles, services, op, outcome, invocations,
                 rot_locals, conn_results, rule_status>>

\* Variant: the tuple returned is taken from the first fetch.
ListKeys_ReturnsFirstFetch ==
  /\ IsRotatePc(pc)
  /\ LET i == StepAt(pc)
         st == RotateSteps[i]
         rule == CurrentRule.name IN
       /\ st.do = "list_keys"
       /\ \E ok \in BOOLEAN :
            /\ calls' = Append(calls, ListKeysCall(rule, ok))
            /\ IF ok
                 THEN /\ keys' = IF i = Len(RotateSteps)
                                   THEN keys
                                   ELSE [rule |-> rule,
                                         primary |-> sb_keys[rule].primary,
                                         secondary |-> sb_keys[rule].secondary]
                      /\ pc' = NextPc(i)
                      /\ rule_status' =
                           IF i = Len(RotateSteps)
                             THEN [rule_status EXCEPT ![rule] = "rotated"]
                             ELSE rule_status
                      /\ UNCHANGED <<results, idx>>
                 ELSE /\ RotateRaised
                      /\ UNCHANGED keys
  /\ UNCHANGED <<apps, handler, history, config, handles, services, now, op,
                 outcome, invocations, start_time, secret_updated,
                 conn_results>>

\* client.namespaces.list_keys(...): `keys`, then `final_keys`, whose two
\* connection strings are returned.
ListKeys ==
  /\ IsRotatePc(pc)
  /\ LET i == StepAt(pc)
         st == RotateSteps[i]
         rule == CurrentRule.name IN
       /\ st.do = "list_keys"
       /\ \E ok \in BOOLEAN :
            /\ calls' = Append(calls, ListKeysCall(rule, ok))
            /\ IF ok
                 THEN /\ keys' = [rule |-> rule,
                                  primary |-> sb_keys[rule].primary,
                                  secondary |-> sb_keys[rule].secondary]
                      /\ pc' = NextPc(i)
                      /\ rule_status' =
                           IF i = Len(RotateSteps)
                             THEN [rule_status EXCEPT ![rule] = "rotated"]
                             ELSE rule_status
                      /\ UNCHANGED <<results, idx>>
                 ELSE /\ RotateRaised
                      /\ UNCHANGED keys
  /\ UNCHANGED <<apps, handler, history, config, handles, services, now, op, outcome, invocations,
                 start_time, secret_updated, conn_results>>

\* --------------------------------------------- update_keyvault_secret
\* Variant: a failure is not caught.
update_keyvault_secret_Raises(ok) == IF ok THEN "true" ELSE "raised"

\* What update_keyvault_secret hands back: True after set_secret went
\* through, False from its `except Exception`.
update_keyvault_secret(ok) == IF ok THEN "true" ELSE "false"

\* Variant: the error is appended without the `else`.
RecordStore_NoElse(r, rule_config, ret, t) ==
  CASE ret = "true" ->
         [r EXCEPT !.rules_rotated =
                     Append(@, RotationRuleResult(rule_config, t)),
                   !.errors = Append(@, KeyVaultError(rule_config.name))]
    [] ret = "false" ->
         [r EXCEPT !.errors = Append(@, KeyVaultError(rule_config.name))]
    [] OTHER -> RuleHandler(r, rule_config.name)

\* Variant: the outcome is recorded whatever update_keyvault_secret returned.
RecordStore_Unchecked(r, rule_config, ret, t) ==
  CASE ret \in {"true", "false"} ->
         [r EXCEPT !.rules_rotated =
                     Append(@, RotationRuleResult(rule_config, t))]
    [] OTHER -> RuleHandler(r, rule_config.name)

\* Variant: the outcome replaces the list instead of being appended to it.
RecordStore_Overwrites(r, rule_config, ret, t) ==
  CASE ret = "true" ->
         [r EXCEPT !.rules_rotated = <<RotationRuleResult(rule_config, t)>>]
    [] ret = "false" ->
         [r EXCEPT !.errors = Append(@, KeyVaultError(rule_config.name))]
    [] OTHER -> RuleHandler(r, rule_config.name)

\* perform_rotation after the call: `if secret_updated:` appends the
\* outcome, `else:` the Key Vault error; an exception out of the call would
\* land in the per-rule handler.
RecordStore(r, rule_config, ret, t) ==
  CASE ret = "true" ->
         [r EXCEPT !.rules_rotated =
                     Append(@, RotationRuleResult(rule_config, t))]
    [] ret = "false" ->
         [r EXCEPT !.errors = Append(@, KeyVaultError(rule_config.name))]
    [] OTHER -> RuleHandler(r, rule_config.name)

StoreStatus(ret) ==
  CASE ret = "true" -> "stored"
    [] ret = "false" -> "store_false"
    [] OTHER -> "store_raised"

StoreReturned(ret) ==
  /\ secret_updated' = ret
  /\ results' = RecordStore(results, CurrentRule, ret, now)
  /\ rule_status' = [rule_status EXCEPT ![CurrentRule.name] = StoreStatus(ret)]
  /\ idx' = idx + 1
  /\ pc' = "loop"

\* `client = self._get_keyvault_client()` inside update_keyvault_secret.
StoreGetClient ==
  /\ pc = "store_client"
  /\ \E g \in get_keyvault_client :
       /\ credential' = g.credential
       /\ keyvault_client' = g.client
       /\ constructions' = Built(constructions, g.built)
       /\ IF g.ok
            THEN /\ pc' = "set_secret"
                 /\ UNCHANGED <<results, idx, secret_updated, rule_status>>
            ELSE StoreReturned(update_keyvault_secret(FALSE))
  /\ UNCHANGED <<apps, handler, history, config, servicebus_client, services, now, op, outcome,
                 invocations, start_time, keys, conn_results, calls>>

\* client.set_secret(name=secret_name, value=connection_string, ...)
SetSecret ==
  /\ pc = "set_secret"
  /\ \E ok \in BOOLEAN :
       /\ calls' = Append(calls, SetSecretCall(CurrentRule.name, ok))
       /\ vault' = IF ok
                     THEN [vault EXCEPT ![CurrentRule.secret_name] = keys]
                     ELSE vault
       /\ StoreReturned(update_keyvault_secret(ok))
  /\ UNCHANGED <<apps, handler, history, config, handles, sb_keys, now, op, outcome, invocations,
                 start_time, keys, conn_results>>

\* --------------------------------------------------- test_connections
UnknownStatus == [status |-> "unknown", error |-> None]

\* One probe's try/except: healthy when the call went through, otherwise
\* unhealthy with str(e).
ProbeResult(ok) ==
  IF ok THEN [status |-> "healthy", error |-> None]
        ELSE [status |-> "unhealthy", error |-> "str(e)"]

\* Variant: a failed Service Bus probe ends the check.
AfterServiceBusProbe_StopsOnFailure(ok) ==
  IF ok THEN "probe_key_vault" ELSE "done"

\* Position after the Service Bus probe, whichever way it ended.
AfterServiceBusProbe(ok) == "probe_key_vault"

TestConnectionsStart ==
  /\ pc \in {"idle", "done"}
  /\ invocations < MaxInvocations
  /\ invocations' = invocations + 1
  /\ op' = "test_connections"
  /\ outcome' = ""
  /\ conn_results' = [service_bus |-> UnknownStatus,
                      key_vault |-> UnknownStatus]
  /\ calls' = <<>>
  /\ pc' = "probe_service_bus"
  /\ UNCHANGED <<apps, handler, history, config, handles, services, now, rot_locals, rule_status>>

\* "Test Service Bus connection"
ProbeServiceBus ==
  /\ pc = "probe_service_bus"
  /\ \E g \in get_servicebus_client :
       /\ credential' = g.credential
       /\ servicebus_client' = g.client
       /\ constructions' = Built(constructions, g.built)
       /\ \E ok \in (IF g.ok THEN BOOLEAN ELSE {FALSE}) :
            /\ calls' = IF g.ok THEN Append(calls, GetNamespaceCall(ok))
                                ELSE calls
            /\ conn_results' =
                 [conn_results EXCEPT !.service_bus = ProbeResult(ok)]
            /\ pc' = AfterServiceBusProbe(ok)
  /\ UNCHANGED <<apps, handler, history, config, keyvault_client, services, now, op, outcome,
                 invocations, rot_locals, rule_status>>

\* "Test Key Vault connection", then `return results`.
ProbeKeyVault ==
  /\ pc = "probe_key_vault"
  /\ \E g \in get_keyvault_client :
       /\ credential' = g.credential
       /\ keyvault_client' = g.client
       /\ constructions' = Built(constructions, g.built)
       /\ \E ok \in (IF g.ok THEN BOOLEAN ELSE {FALSE}) :
            /\ calls' = IF g.ok THEN Append(calls, ListSecretsCall(ok))
                                ELSE calls
            /\ conn_results' =
                 [conn_results EXCEPT !.key_vault = ProbeResult(ok)]
  /\ pc' = "done"
  /\ outcome' = "returned"
  /\ UNCHANGED <<apps, handler, history, config, servicebus_client, services, now, op,
                 invocations, rot_locals, rule_status>>

\* ------------------------------------------------------------------ Next
Next ==
  \/ PerformRotationStart
  \/ LoopNext
  \/ UnexpectedDefect
  \/ LoopEnd
  \/ RotateGetClient
  \/ RegenerateKeys
  \/ Sleep
  \/ ListKeys
  \/ StoreGetClient
  \/ SetSecret
  \/ TestConnectionsStart
  \/ ProbeServiceBus
  \/ ProbeKeyVault

Spec == Init /\ [][Next]_vars

\* =========================================== the handlers, concurrently
\* One timer trigger and one POST /rotate request served by the same
\* worker: both handlers call perform_rotation on the module-level
\* rotation_manager, and their steps interleave at every SDK call and every
\* sleep.  The handles and the two services are shared; everything
\* perform_rotation keeps in local variables is per handler.  Time is not
\* followed here: a sleep is a point where the other handler may run.
sequential == <<pc, op, outcome, rot_locals, conn_results, observed,
                history, now>>

\* json.dumps(...)
json_dumps(x) == <<"json", x>>

\* Variant: the report lives on the manager and is shared by all callers.
ReportOwner_Shared(t) == "timer"

\* The invocation whose local `results` a handler's perform_rotation writes.
ReportOwner(t) == t

Cur(t) == auth_rules[handler[t].idx]
InRotation(t) == handler[t].pc = "rotate_client" \/ IsRotatePc(handler[t].pc)

\* Variant: every request is answered with 200.
ManualResponse_AlwaysOk(out, r) ==
  [status_code |-> 200, body |-> json_dumps(r)]

\* manual_rotation: 200 with the report when it says success, 500 with the
\* report otherwise, 500 with an error body when perform_rotation raised.
ManualResponse(out, r) ==
  IF out = "raised"
    THEN [status_code |-> 500, body |-> json_dumps("Manual rotation failed")]
    ELSE [status_code |-> IF r.success THEN 200 ELSE 500,
          body |-> json_dumps(r)]

\* service_bus_secret_rotation returns None and logs.
TimerResponse(out, r) == [status_code |-> 0, body |-> <<>>]

\* Variant: the timer handler starts over when the run was not a success.
AfterRun_RetriesFailure(t, out, r) ==
  IF t = "timer" /\ ~r.success THEN "idle" ELSE "responded"

\* Where a handler is after perform_rotation came back: it answers (or
\* logs) and ends, whatever the report says.
AfterRun(t, out, r) == "responded"

\* The handler is triggered and calls rotation_manager.perform_rotation(),
\* which builds its report and takes the disabled short-circuit or enters
\* the loop.
H_Trigger(t) ==
  /\ handler[t].pc = "idle"
  /\ invocations' = invocations + 1
  /\ LET fresh == InitialResults(invocations + 1, now) IN
       handler' =
         [handler EXCEPT
            ![t].invoked = @ + 1,
            ![t].idx = 1,
            ![t].keys = NoKeys,
            ![t].rule_status = [r \in RuleNames |-> "pending"],
            ![t].outcome = IF RotationDisabled THEN "returned" ELSE "",
            ![t].pc = IF RotationDisabled THEN "returned" ELSE "loop",
            ![ReportOwner(t)].results =
              IF RotationDisabled
                THEN Stamp([fresh EXCEPT !.errors = Append(@, DisabledError)],
                           now, now)
                ELSE fresh]
  /\ UNCHANGED <<apps, config, handles, services, sequential>>
  /\ UNCHANGED <<pc, op, outcome>>

H_LoopNext(t) ==
  /\ handler[t].pc = "loop"
  /\ handler[t].idx <= Len(auth_rules)
  /\ handler' = [handler EXCEPT
                   ![t].pc = "rotate_client",
                   ![t].rule_status[Cur(t).name] = "rotating"]
  /\ UNCHANGED <<apps, config, handles, services, sequential, invocations>>

H_UnexpectedDefect(t) ==
  /\ handler[t].pc = "loop"
  /\ handler[t].idx <= Len(auth_rules)
  /\ LET h == CriticalHandler(handler[ReportOwner(t)].results, now, now) IN
       handler' = [handler EXCEPT
                     ![t].pc = "returned",
                     ![t].outcome = h.outcome,
                     ![t].rule_status[Cur(t).name] = "escaped",
                     ![ReportOwner(t)].results = h.results]
  /\ UNCHANGED <<apps, config, handles, services, sequential, invocations>>

H_LoopEnd(t) ==
  /\ handler[t].pc = "loop"
  /\ handler[t].idx > Len(auth_rules)
  /\ handler' = [handler EXCEPT
                   ![t].pc = "returned",
                   ![t].outcome = "returned",
                   ![ReportOwner(t)].results = Finalize(@, now, now)]
  /\ UNCHANGED <<apps, config, handles, services, sequential, invocations>>

\* The handler's rotate_authorization_rule_keys raised: per-rule handler.
H_Raised(t) ==
  [handler EXCEPT
     ![t].pc = "loop",
     ![t].rule_status[Cur(t).name] = "rotate_raised",
     ![t].idx = @ + 1,
     ![ReportOwner(t)].results = RuleHandler(@, Cur(t).name)]

H_RotateGetClient(t) ==
  /\ handler[t].pc = "rotate_client"
  /\ \E g \in get_servicebus_client :
       /\ credential' = g.credential
       /\ servicebus_client' = g.client
       /\ constructions' = Built(constructions, g.built)
       /\ handler' = IF g.ok
                       THEN [handler EXCEPT ![t].pc = RotateSteps[1].at]
                       ELSE H_Raised(t)
  /\ UNCHANGED <<apps, config, keyvault_client, services, sequential, invocations>>

H_RegenerateKeys(t) ==
  /\ IsRotatePc(handler[t].pc)
  /\ LET i == StepAt(handler[t].pc)
         st == RotateSteps[i]
         rule == Cur(t).name IN
       /\ st.do = "regenerate_keys"
       /\ \E ok \in BOOLEAN :
            /\ sb_keys' = IF ok
                            THEN [sb_keys EXCEPT
                                    ![rule] = regenerate_keys(@, st.key_type)]
                            ELSE sb_keys
            /\ handler' = IF ok
                            THEN [handler EXCEPT ![t].pc = NextPc(i)]
                            ELSE H_Raised(t)
  /\ UNCHANGED <<apps, config, handles, vault, sequential, invocations>>

H_Sleep(t) ==
  /\ IsRotatePc(handler[t].pc)
  /\ LET i == StepAt(handler[t].pc) IN
       /\ RotateSteps[i].do = "sleep"
       /\ handler' = [handler EXCEPT ![t].pc = NextPc(i)]
  /\ UNCHANGED <<apps, config, handles, services, sequential, invocations>>

H_ListKeys(t) ==
  /\ IsRotatePc(handler[t].pc)
  /\ LET i == StepAt(handler[t].pc)
         rule == Cur(t).name IN
       /\ RotateSteps[i].do = "list_keys"
       /\ \E ok \in BOOLEAN :
            handler' =
              IF ok
                THEN [handler EXCEPT
                        ![t].pc = NextPc(i),
                        ![t].keys = [rule |-> rule,
                                     primary |-> sb_keys[rule].primary,
                                     secondary |-> sb_keys[rule].secondary],
                        ![t].rule_status[rule] =
                          IF i = Len(RotateSteps) THEN "rotated" ELSE @]
                ELSE H_Raised(t)
  /\ UNCHANGED <<apps, config, handles, services, sequential, invocations>>

\* update_keyvault_secret came back to the handler's perform_rotation.
H_StoreReturned(t, ret) ==
  [handler EXCEPT
     ![t].pc = "loop",
     ![t].rule_status[Cur(t).name] = StoreStatus(ret),
     ![t].idx = @ + 1,
     ![ReportOwner(t)].results = RecordStore(@, Cur(t), ret, now)]

H_StoreGetClient(t) ==
  /\ handler[t].pc = "store_client"
  /\ \E g \in get_keyvault_client :
       /\ credential' = g.credential
       /\ keyvault_client' = g.client
       /\ constructions' = Built(constructions, g.built)
       /\ handler' = IF g.ok
                       THEN [handler EXCEPT ![t].pc = "set_secret"]
                       ELSE H_StoreReturned(t, update_keyvault_secret(FALSE))
  /\ UNCHANGED <<apps, config, servicebus_client, services, sequential,
                 invocations>>

H_SetSecret(t) ==
  /\ handler[t].pc = "set_secret"
  /\ \E ok \in BOOLEAN :
       /\ vault' = IF ok
                     THEN [vault EXCEPT
                             ![Cur(t).secret_name] = handler[t].keys]
                     ELSE vault
       /\ handler' = H_StoreReturned(t, update_keyvault_secret(ok))
  /\ UNCHANGED <<apps, config, handles, sb_keys, sequential, invocations>>

\* perform_rotation is back in the handler: manual_rotation builds the
\* HttpResponse, service_bus_secret_rotation logs; both catch an exception.
H_Respond(t) ==
  /\ handler[t].pc = "returned"
  /\ LET out == handler[t].outcome
         r == handler[t].results IN
       handler' =
         [handler EXCEPT
            ![t].pc = AfterRun(t, out, r),
            ![t].response = IF t = "manual" THEN ManualResponse(out, r)
                                            ELSE TimerResponse(out, r)]
  /\ UNCHANGED <<apps, config, handles, services, sequential, invocations>>

NextHandlers ==
  \E t \in Handlers :
    \/ H_Trigger(t)
    \/ H_LoopNext(t)
    \/ H_UnexpectedDefect(t)
    \/ H_LoopEnd(t)
    \/ H_RotateGetClient(t)
    \/ H_RegenerateKeys(t)
    \/ H_Sleep(t)
    \/ H_ListKeys(t)
    \/ H_StoreGetClient(t)
    \/ H_SetSecret(t)
    \/ H_Respond(t)

\* The manager as __init__ builds it when ROTATE_ADMIN_ACCESS is left at its
\* default: the two standard rules.
InitHandlers == Init /\ auth_rules = AuthRulesFor(FALSE)

SpecHandlers == InitHandlers /\ [][NextHandlers]_vars

\* ====================================================== rotation_health
\* GET /health: calls rotation_manager.test_connections() and answers from
\* what the two probes reported.
\* Variant: one healthy probe is enough.
HealthResponse_EitherProbe(out, c) ==
  LET overall_healthy == \/ c.service_bus.status = "healthy"
                         \/ c.key_vault.status = "healthy" IN
    [status_code |-> IF overall_healthy THEN 200 ELSE 503,
     body |-> json_dumps(
       [status |-> IF overall_healthy THEN "healthy" ELSE "unhealthy",
        service_bus |-> c.service_bus, key_vault |-> c.key_vault])]

\* `overall_healthy`, `status_code`, `health_data`; the `except Exception`
\* branch answers 503 "unhealthy".
HealthResponse(out, c) ==
  IF out # "returned"
    THEN [status_code |-> 503,
          body |-> json_dumps([status |-> "unhealthy",
                               error |-> "Health check failed"])]
    ELSE
      LET service_bus_healthy == c.service_bus.status = "healthy"
          key_vault_healthy == c.key_vault.status = "healthy"
          overall_healthy == service_bus_healthy /\ key_vault_healthy IN
        [status_code |-> IF overall_healthy THEN 200 ELSE 503,
         body |-> json_dumps(
           [status |-> IF overall_healthy THEN "healthy" ELSE "unhealthy",
            service_bus |-> c.service_bus, key_vault |-> c.key_vault])]

\* A request arrives (the one before it is answered) and the handler calls
\* test_connections.
RotationHealthStart ==
  /\ health.answered = invocations
  /\ TestConnectionsStart

\* test_connections is back: build the HttpResponse.
RotationHealthRespond ==
  /\ pc = "done"
  /\ op = "test_connections"
  /\ health.answered # invocations
  /\ health' = [answered |-> invocations,
                response |-> HealthResponse(outcome, conn_results)]
  /\ UNCHANGED <<manager, sbm, policy_check, retry, counters>>

NextHealth ==
  \/ RotationHealthStart
  \/ ProbeServiceBus
  \/ ProbeKeyVault
  \/ RotationHealthRespond

SpecHealth == Init /\ [][NextHealth]_vars

\* ================================== advanced app: ServiceBusManager
\* Number of policy_notification_timer triggers explored.
MaxTriggers == 3

\* Variant: a failure inside send_message is not caught.
send_message_Raises(failure) == IF failure = "" THEN "true" ELSE "raised"

\* What send_message hands back: True at the end of its try block, False
\* from its `except Exception`.
send_message(failure) == IF failure = "" THEN "true" ELSE "false"

\* send_message is over, with the step that failed or "" for none.
SendEnds(failure) ==
  sbm' = [sbm EXCEPT !.pc = "returned", !.failure = failure,
                     !.ret = send_message(failure)]

\* Variant: the handler sends again when the send failed.
TimerAfterSend_Resends(ret) == IF ret = "false" THEN "imports" ELSE "idle"

\* policy_notification_timer after send_message: log and end.
TimerAfterSend(ret) == "idle"

\* The timer fires: message_data is built and send_message is called.
PolicyNotificationTimer ==
  /\ sbm.pc = "idle"
  /\ sbm.triggers < MaxTriggers
  /\ sbm' = [sbm EXCEPT !.pc = "imports", !.triggers = @ + 1,
                        !.send_calls = 1, !.ret = "none", !.failure = "",
                        !.handed = FALSE, !.ended = ""]
  /\ UNCHANGED <<manager, health, policy_check, retry, counters>>

\* _ensure_servicebus_imports() at the head of send_message.
SendEnsureImports ==
  /\ sbm.pc = "imports"
  /\ IF sbm.imported
       THEN sbm' = [sbm EXCEPT !.pc = "get_client"]
       ELSE \/ sbm' = [sbm EXCEPT !.imported = TRUE, !.pc = "get_client"]
            \/ SendEnds("imports")
  /\ UNCHANGED <<manager, health, policy_check, retry, counters>>

\* self._get_client(): the connection string check, then the memoized
\* ServiceBusClient.from_connection_string.
SendGetClient ==
  /\ sbm.pc = "get_client"
  /\ IF sbm.connection_string \in {None, ""}
       THEN SendEnds("connection_string")
       ELSE IF sbm.client # None
         THEN sbm' = [sbm EXCEPT !.pc = "send"]
         ELSE \/ sbm' = [sbm EXCEPT !.client = "client", !.pc = "send"]
              \/ SendEnds("client")
  /\ UNCHANGED <<manager, health, policy_check, retry, counters>>

\* ServiceBusMessage(...), `with client.get_queue_sender(...) as sender:`,
\* sender.send_messages(message), leaving the with block, return True.
SendMessages ==
  /\ sbm.pc = "send"
  /\ \E failure \in {"", "message", "sender", "send", "close"} :
       LET sent == failure \in {"", "close"} IN
         sbm' = [sbm EXCEPT !.pc = "returned", !.failure = failure,
                            !.ret = send_message(failure),
                            !.handed = sent,
                            !.queue = IF sent THEN @ + 1 ELSE @]
  /\ UNCHANGED <<manager, health, policy_check, retry, counters>>

\* `success = ...`, the two log branches, and the handler's own except.
NotificationTimerEnd ==
  /\ sbm.pc = "returned"
  /\ sbm' = [sbm EXCEPT !.pc = TimerAfterSend(sbm.ret),
                        !.send_calls = IF TimerAfterSend(sbm.ret) = "idle"
                                         THEN @ ELSE @ + 1,
                        !.ended = "normally"]
  /\ UNCHANGED <<manager, health, policy_check, retry, counters>>

NextServiceBus ==
  \/ PolicyNotificationTimer
  \/ SendEnsureImports
  \/ SendGetClient
  \/ SendMessages
  \/ NotificationTimerEnd

\* The rotation manager as built with every setting present; the advanced
\* app with ServiceBusConnectionString unset, empty or set.
InitServiceBus ==
  /\ InitManagerConfigured
  /\ CountersIdle
  /\ HealthIdle
  /\ \E cs \in {None, "", "Endpoint=sb://"} : sbm = NewServiceBusManager(cs)
  /\ PolicyCheckIdle
  /\ RetryIdle

SpecServiceBus == InitServiceBus /\ [][NextServiceBus]_vars

\* ======================== tests/conftest.py: validate_policy_structure
\* Variant: description is not required.
required_fields_NoDescription == <<"displayName", "mode", "policyRule">>

required_fields == <<"displayName", "description", "mode", "policyRule">>

valid_modes ==
  <<"All", "Indexed", "Microsoft.KeyVault.Data",
    "Microsoft.ContainerService.Data", "Microsoft.Kubernetes.Data">>

\* The error strings, by kind.
MissingField(field) == [kind |-> "missing", field |-> field]
InvalidMode == [kind |-> "mode", field |-> "mode"]
RuleNotObject == [kind |-> "rule_not_object", field |-> "policyRule"]
RuleIncomplete == [kind |-> "rule_if_then", field |-> "policyRule"]

\* A JSON value as far as the validator looks at it: a dict with its keys,
\* or a string with its text.
JsonDict(ks) == [type |-> "dict", keys |-> ks, text |-> ""]
JsonString(text) == [type |-> "str", keys |-> {}, text |-> text]

\* `value in valid_modes`: equal to one of the strings of the list.
InList(value, list) ==
  value.type = "str" /\ \E i \in 1..Len(list) : list[i] = value.text

\* The three parts of validate_policy_structure, in the order it appends.
validate_policy_structure(policy) ==
  LET absent == SelectSeq(required_fields,
                          LAMBDA field : field \notin DOMAIN policy)
      missing == [i \in 1..Len(absent) |-> MissingField(absent[i])]
      mode == IF "mode" \in DOMAIN policy
                   /\ ~InList(policy["mode"], valid_modes)
                THEN <<InvalidMode>> ELSE <<>>
      rule == IF "policyRule" \notin DOMAIN policy THEN <<>>
              ELSE IF policy["policyRule"].type # "dict"
                THEN <<RuleNotObject>>
              ELSE IF "if" \notin policy["policyRule"].keys
                      \/ "then" \notin policy["policyRule"].keys
                THEN <<RuleIncomplete>>
              ELSE <<>>
  IN missing \o mode \o rule

\* Policies handed to the validator: any subset of the four fields (and
\* one more), modes allowed and not, rules that are objects with any of
\* the keys `if`, `then`, or no object.
PolicyFields == {"displayName", "description", "mode", "policyRule",
                 "metadata"}
PolicyModes ==
  {JsonString(text) : text \in {"All", "Indexed", "Microsoft.KeyVault.Data",
                                "Microsoft.ContainerService.Data",
                                "Microsoft.Kubernetes.Data", "all",
                                "Invalid"}}
    \cup {JsonDict({})}
PolicyRules == {JsonDict(ks) : ks \in SUBSET {"if", "then", "else"}}
                 \cup {JsonString("audit")}
Policy(fields, mode, rule) ==
  [f \in fields |-> CASE f = "mode" -> mode
                       [] f = "policyRule" -> rule
                       [] OTHER -> JsonString("text")]

\* errors = PolicyTestHelper.validate_policy_structure(policy)
ValidatePolicyStructure ==
  /\ policy_check.pc = "given"
  /\ policy_check' =
       [policy_check EXCEPT
          !.pc = "validated",
          !.errors = validate_policy_structure(policy_check.policy)]
  /\ UNCHANGED <<manager, health, sbm, retry, counters>>

NextPolicy == ValidatePolicyStructure

InitPolicy ==
  /\ InitManagerConfigured
  /\ CountersIdle
  /\ HealthIdle
  /\ ServiceBusIdle
  /\ RetryIdle
  /\ \E fields \in SUBSET PolicyFields, mode \in PolicyModes,
        rule \in PolicyRules :
       policy_check = [pc |-> "given", policy |-> Policy(fields, mode, rule),
                       errors |-> <<>>]

SpecPolicy == InitPolicy /\ [][NextPolicy]_vars

\* ==================== common/decorators.py: retry_with_logging
\* Largest max_retries a wrapper is made with.
MaxRetries == 3

RECURSIVE Power(_, _)
Power(b, e) == IF e = 0 THEN 1 ELSE b * Power(b, e - 1)

\* `delay = delay_seconds * (backoff_multiplier**attempt)`
Delay(r) == r.delay_seconds * Power(r.backoff_multiplier, r.attempt)

\* Variant: the last attempt is taken to be the one after max_retries.
LastAttempt_OneLater(r) == r.attempt = r.max_retries + 1

\* `if attempt == max_retries:`
LastAttempt(r) == r.attempt = r.max_retries

\* The wrapper is called: `for attempt in range(max_retries + 1):`
RetryWrapperCalled ==
  /\ retry.pc = "idle"
  /\ retry' = [retry EXCEPT !.pc = "loop", !.attempt = 0]
  /\ UNCHANGED <<manager, health, sbm, policy_check, counters>>

\* Head of the for loop: the next attempt, or past the end of the range to
\* `raise RuntimeError("Unexpected end of retry loop")`.
RetryLoopHead ==
  /\ retry.pc = "loop"
  /\ retry' = IF retry.attempt < retry.max_retries + 1
                THEN [retry EXCEPT !.pc = "call"]
                ELSE [retry EXCEPT !.pc = "done",
                                   !.result = "runtime_error"]
  /\ UNCHANGED <<manager, health, sbm, policy_check, counters>>

\* `result = func_call(*args, **kwargs)`: return it, or in the handler
\* re-raise on the last attempt and otherwise go on to sleep.
RetryCall ==
  /\ retry.pc = "call"
  /\ \/ retry' = [retry EXCEPT
                    !.trace = Append(@, [ev |-> "returned",
                                         n |-> retry.attempt]),
                    !.pc = "done", !.result = "returned"]
     \/ retry' = [retry EXCEPT
                    !.trace = Append(@, [ev |-> "raised",
                                         n |-> retry.attempt]),
                    !.pc = IF LastAttempt(retry) THEN "done" ELSE "sleep",
                    !.result = IF LastAttempt(retry) THEN "reraised"
                                                     ELSE "none"]
  /\ UNCHANGED <<manager, health, sbm, policy_check, counters>>

\* `time.sleep(delay)`, then the next value of the range.
RetrySleep ==
  /\ retry.pc = "sleep"
  /\ retry' = [retry EXCEPT
                 !.trace = Append(@, [ev |-> "sleep", n |-> Delay(retry)]),
                 !.attempt = @ + 1,
                 !.pc = "loop"]
  /\ UNCHANGED <<manager, health, sbm, policy_check, counters>>

NextRetry ==
  \/ RetryWrapperCalled
  \/ RetryLoopHead
  \/ RetryCall
  \/ RetrySleep

\* Wrappers made with max_retries from -2 to MaxRetries.
InitRetry ==
  /\ InitManagerConfigured
  /\ CountersIdle
  /\ HealthIdle
  /\ ServiceBusIdle
  /\ PolicyCheckIdle
  /\ \E max_retries \in -2..MaxRetries, delay_seconds \in {1, 2},
        backoff_multiplier \in {1, 2, 3} :
       retry = NewRetry(max_retries, delay_seconds, backoff_multiplier)

SpecRetry == InitRetry /\ [][NextRetry]_vars

\* ================================== the module-level trigger counters
\* `global rotation_counter; rotation_counter += 1` in
\* service_bus_secret_rotation and `message_counter += 1` in
\* policy_notification_timer: a read of the global, an addition and a write
\* of the global, with nothing that keeps another worker thread from
\* running in between.
\* Number of timer triggers explored per app.
MaxTimerRuns == 2

\* A timer trigger of the app is dispatched to a free worker thread.
TimerHandlerStarts(t, a) ==
  /\ counters.thread[t].pc = "idle"
  /\ counters.triggered[a] < MaxTimerRuns
  /\ counters' = [counters EXCEPT
                    !.triggered[a] = @ + 1,
                    !.thread[t] = [pc |-> "load", app |-> a, loaded |-> 0]]
  /\ UNCHANGED <<manager, health, sbm, policy_check, retry>>

\* `+=`, first half: the global is read.
CounterLoad(t) ==
  /\ counters.thread[t].pc = "load"
  /\ counters' = [counters EXCEPT
                    !.thread[t].loaded = counters.value[counters.thread[t].app],
                    !.thread[t].pc = "store"]
  /\ UNCHANGED <<manager, health, sbm, policy_check, retry>>

\* `+=`, second half: the sum is written to the global.
CounterStore(t) ==
  /\ counters.thread[t].pc = "store"
  /\ counters' = [counters EXCEPT
                    !.value[counters.thread[t].app] =
                      counters.thread[t].loaded + 1,
                    !.thread[t].pc = "body"]
  /\ UNCHANGED <<manager, health, sbm, policy_check, retry>>

\* The rest of the timer handler; it does not write the counter.
TimerHandlerEnds(t) ==
  /\ counters.thread[t].pc = "body"
  /\ counters' = [counters EXCEPT
                    !.thread[t] = [pc |-> "idle", app |-> "", loaded |-> 0]]
  /\ UNCHANGED <<manager, health, sbm, policy_check, retry>>

\* An HTTP handler of the app (health, info, manual rotation, test
\* message) runs: the counter is at most read, into the response body.
HttpHandlerRuns(a) ==
  /\ counters.seen[a] # counters.value[a]
  /\ counters' = [counters EXCEPT !.seen[a] = counters.value[a]]
  /\ UNCHANGED <<manager, health, sbm, policy_check, retry>>

NextCounters ==
  \/ \E t \in Threads, a \in Apps : TimerHandlerStarts(t, a)
  \/ \E t \in Threads : CounterLoad(t)
  \/ \E t \in Threads : CounterStore(t)
  \/ \E t \in Threads : TimerHandlerEnds(t)
  \/ \E a \in Apps : HttpHandlerRuns(a)

InitCounters ==
  /\ InitManagerConfigured
  /\ HealthIdle
  /\ ServiceBusIdle
  /\ PolicyCheckIdle
  /\ RetryIdle
  /\ CountersIdle

SpecCounters == InitCounters /\ [][NextCounters]_vars

\* ============================================================ properties
Returned == pc = "done" /\ op = "perform_rotation"

RuleLevel(e) == e.kind \in {"rotate", "keyvault"}
OutcomesOf(r, rule_name) ==
  Len(SelectSeq(r.rules_rotated, LAMBDA o : o.rule_name = rule_name))
RuleErrorsOf(r, rule_name) ==
  Len(SelectSeq(r.errors, LAMBDA e : RuleLevel(e) /\ e.rule = rule_name))
ConfiguredNames == {auth_rules[i].name : i \in 1..Len(auth_rules)}
IsPrefix(s, t) == Len(s) <= Len(t) /\ \A i \in 1..Len(s) : s[i] = t[i]

\* C1: every report perform_rotation returns, on the disabled, the normal
\* and the critical-error path, has
\* success = (len(rules_rotated) > 0 and len(errors) = 0).
C1_SuccessMatchesReport ==
  Returned =>
    (results.success <=>
       (Len(results.rules_rotated) > 0 /\ Len(results.errors) = 0))

\* A returned report with an outcome and an error: success must be false.
C1_Witness ==
  /\ Returned
  /\ Len(results.rules_rotated) > 0
  /\ Len(results.errors) > 0

\* C2: in every report each configured rule has at most one entry among the
\* outcomes and the rule-level errors together, never one of each, only
\* configured rules have entries, and so
\* len(rules_rotated) + #rule-level errors <= len(configured rules).
C2_AtMostOneEntryPerRule ==
  op = "perform_rotation" =>
    /\ \A n \in RuleNames :
         /\ OutcomesOf(results, n) + RuleErrorsOf(results, n) <= 1
         /\ n \notin ConfiguredNames =>
              OutcomesOf(results, n) + RuleErrorsOf(results, n) = 0
    /\ Len(results.rules_rotated)
         + Len(SelectSeq(results.errors, RuleLevel)) <= Len(auth_rules)

\* A returned report in which every configured rule has its one entry, some
\* an outcome and some an error.
C2_Witness ==
  /\ Returned
  /\ Len(results.rules_rotated) > 0
  /\ Len(SelectSeq(results.errors, RuleLevel)) > 0
  /\ Len(results.rules_rotated)
       + Len(SelectSeq(results.errors, RuleLevel)) = Len(auth_rules)

\* The calls rotate_authorization_rule_keys made for a rule in the running
\* invocation, without their results.
RotateLog(rule_name) ==
  LET made == SelectSeq(calls, LAMBDA c :
                c.rule = rule_name
                /\ c.op \in {"regenerate_keys", "sleep", "list_keys"})
  IN [i \in 1..Len(made) |-> <<made[i].op, made[i].key_type, made[i].secs>>]

ExpectedRotateLog ==
  << <<"regenerate_keys", "PrimaryKey", 0>>,
     <<"sleep", "", 30>>,
     <<"list_keys", "", 0>>,
     <<"sleep", "", 300>>,
     <<"regenerate_keys", "SecondaryKey", 0>>,
     <<"sleep", "", 30>>,
     <<"list_keys", "", 0>> >>

RotateReturned(rule_name) ==
  rule_status[rule_name] \in {"rotated", "stored", "store_false",
                              "store_raised"}

\* C3: for one rule, rotate_authorization_rule_keys calls regenerate
\* PrimaryKey, sleep 30, list_keys, sleep 300, regenerate SecondaryKey,
\* sleep 30, list_keys in exactly this order: what it has done so far is
\* always an initial part of that sequence, and when it has returned it has
\* done all of it (2 regenerate, 2 list_keys, 3 sleeps).
C3_RotateSequence ==
  op = "perform_rotation" =>
    \A n \in RuleNames :
      /\ IsPrefix(RotateLog(n), ExpectedRotateLog)
      /\ RotateReturned(n) => RotateLog(n) = ExpectedRotateLog

\* rotate_authorization_rule_keys has returned for the second rule.
C3_Witness ==
  /\ op = "perform_rotation"
  /\ RotateReturned("ReadOnlyAccess")
  /\ Len(RotateLog("ReadOnlyAccess")) = 7

\* C4: with rotation disabled perform_rotation calls neither service and
\* does not sleep, and returns success = false,
\* errors = ["Secret rotation is disabled"], rules_rotated = [].
C4_DisabledShortCircuit ==
  ~rotation_enabled =>
    /\ \A n \in RuleNames : sb_keys[n] = [primary |-> 0, secondary |-> 0]
    /\ \A n \in SecretNames : vault[n] = NoKeys
    /\ now = 0
    /\ op = "perform_rotation" =>
         /\ pc = "done"
         /\ results.duration_seconds = 0
         /\ outcome = "returned"
         /\ calls = <<>>
         /\ results.success = FALSE
         /\ results.errors = <<DisabledError>>
         /\ results.rules_rotated = <<>>

\* A disabled manager has returned from perform_rotation.
C4_Witness == ~rotation_enabled /\ Returned

Position(rule_name) ==
  CHOOSE i \in 1..Len(auth_rules) : auth_rules[i].name = rule_name
Processed(rule_name) == rule_status[rule_name] \notin {"pending", "escaped"}
Escaped == \E n \in RuleNames : rule_status[n] = "escaped"

\* C5: when rotate_authorization_rule_keys raises for a rule the report
\* gets exactly one error string for that rule and no outcome, and the loop
\* goes on with the next rule: every later rule is processed in a run that
\* reaches the end of the loop.  With two rules, the first raising and the
\* second succeeding fully, the report has exactly 1 error, exactly 1
\* outcome (the second rule's) and success = false.
C5_RotateFailureIsolated ==
  op = "perform_rotation" =>
    /\ \A n \in ConfiguredNames :
         rule_status[n] = "rotate_raised" =>
           /\ RuleErrorsOf(results, n) = 1
           /\ RotateError(n) \in {results.errors[i] :
                                    i \in 1..Len(results.errors)}
           /\ OutcomesOf(results, n) = 0
           /\ idx > Position(n)
           /\ (pc = "done" /\ ~Escaped) =>
                \A m \in ConfiguredNames : Processed(m)
    /\ ( /\ pc = "done"
         /\ Len(auth_rules) = 2
         /\ rule_status[auth_rules[1].name] = "rotate_raised"
         /\ rule_status[auth_rules[2].name] = "stored" ) =>
           /\ results.errors = <<RotateError(auth_rules[1].name)>>
           /\ Len(results.rules_rotated) = 1
           /\ results.rules_rotated[1].rule_name = auth_rules[2].name
           /\ results.success = FALSE

\* Two rules, the first one's rotation raised, the second one's rotation and
\* store went through, and the report is returned.
C5_Witness ==
  /\ Returned
  /\ Len(auth_rules) = 2
  /\ rule_status["FunctionAppAccess"] = "rotate_raised"
  /\ rule_status["ReadOnlyAccess"] = "stored"

\* C6: when the rotation of a rule succeeds and update_keyvault_secret
\* returns false, the report gets one error for that rule and no outcome,
\* and the loop goes on with the remaining rules.
C6_StoreFailureIsolated ==
  op = "perform_rotation" =>
    \A n \in ConfiguredNames :
      rule_status[n] = "store_false" =>
        /\ RuleErrorsOf(results, n) = 1
        /\ KeyVaultError(n) \in {results.errors[i] :
                                   i \in 1..Len(results.errors)}
        /\ OutcomesOf(results, n) = 0
        /\ RotateLog(n) = ExpectedRotateLog
        /\ idx > Position(n)
        /\ (pc = "done" /\ ~Escaped) =>
             \A m \in ConfiguredNames : Processed(m)

\* The store of the first rule returned false and a later rule was still
\* rotated and stored.
C6_Witness ==
  /\ Returned
  /\ rule_status["FunctionAppAccess"] = "store_false"
  /\ rule_status["ReadOnlyAccess"] = "stored"

RotatedNames ==
  [i \in 1..Len(results.rules_rotated) |-> results.rules_rotated[i].rule_name]

\* C7: when the rotation and the store of every configured rule succeed the
\* report has success = true, no errors and one outcome per configured rule
\* in the configured order, FunctionAppAccess, ReadOnlyAccess and then
\* AdminAccess when enabled, each with status "success"; and rules_rotated
\* always lists configured rules in their configured order, none twice.
C7_AllSucceedInOrder ==
  op = "perform_rotation" =>
    /\ \A i, j \in 1..Len(RotatedNames) :
         /\ RotatedNames[i] \in ConfiguredNames
         /\ i < j => Position(RotatedNames[i]) < Position(RotatedNames[j])
    /\ (pc = "done" /\ \A n \in ConfiguredNames : rule_status[n] = "stored") =>
         /\ results.success = TRUE
         /\ results.errors = <<>>
         /\ RotatedNames \in
              { <<"FunctionAppAccess", "ReadOnlyAccess">>,
                <<"FunctionAppAccess", "ReadOnlyAccess", "AdminAccess">> }
         /\ Len(results.rules_rotated) = Len(auth_rules)
         /\ \A i \in 1..Len(auth_rules) :
              /\ results.rules_rotated[i].rule_name = auth_rules[i].name
              /\ results.rules_rotated[i].secret_name =
                   auth_rules[i].secret_name
              /\ results.rules_rotated[i].status = "success"

\* All three rules, the admin rule included, rotated and stored.
C7_Witness ==
  /\ Returned
  /\ Len(auth_rules) = 3
  /\ \A n \in RuleNames : rule_status[n] = "stored"

\* C8: perform_rotation never raises: it always ends by returning a report
\* with all nine fields, end_time and duration_seconds set, and an error
\* that escapes the rule loop is the last entry of errors.
C8_AlwaysReturnsReport ==
  op = "perform_rotation" =>
    /\ outcome # "raised"
    /\ DOMAIN results = ReportFields
    /\ Escaped => pc = "done"
    /\ pc = "done" =>
         /\ outcome = "returned"
         /\ results.end_time # <<>>
         /\ results.end_time = isoformat(now)
         /\ results.duration_seconds = now - start_time
         /\ Escaped =>
              /\ Len(results.errors) > 0
              /\ results.errors[Len(results.errors)] = CriticalError
              /\ Len(SelectSeq(results.errors,
                               LAMBDA e : e = CriticalError)) = 1

\* An error escaped the loop after one rule had been rotated and another
\* had failed, and the report came back.
C8_Witness ==
  /\ Returned
  /\ Escaped
  /\ Len(results.rules_rotated) > 0
  /\ Len(results.errors) > 1
  /\ results.duration_seconds > 0

\* update_keyvault_secret has just returned to perform_rotation.
StoreJustReturned ==
  /\ op = "perform_rotation"
  /\ pc = "loop"
  /\ idx > 1
  /\ rule_status[auth_rules[idx - 1].name] \in
       {"stored", "store_false", "store_raised"}

\* C9: update_keyvault_secret never raises: whatever fails (no Key Vault
\* URI, the client cannot be built, set_secret raises) it returns false,
\* and it returns true only after set_secret went through.
C9_StoreNeverRaises ==
  /\ secret_updated \in {"none", "true", "false"}
  /\ \A n \in RuleNames : rule_status[n] # "store_raised"
  /\ StoreJustReturned =>
       LET rule == auth_rules[idx - 1] IN
         /\ secret_updated \in {"true", "false"}
         /\ secret_updated = "true" <=>
              /\ calls[Len(calls)] = SetSecretCall(rule.name, TRUE)
              /\ keyvault_client # None
         /\ secret_updated = "true" => vault[rule.secret_name] = keys
         /\ key_vault_uri = None => secret_updated = "false"

\* It returned false once because set_secret raised and once because no
\* Key Vault URI is configured.
C9_Witness ==
  /\ StoreJustReturned
  /\ secret_updated = "false"
  /\ \/ calls[Len(calls)] = SetSecretCall(auth_rules[idx - 1].name, FALSE)
     \/ key_vault_uri = None

\* C10: test_connections never raises and probes both services: the Key
\* Vault probe follows the Service Bus probe however that one ended, and
\* in the result each status is healthy or unhealthy, with an error detail
\* exactly for the unhealthy ones.
C10_BothProbed ==
  op = "test_connections" =>
    /\ outcome # "raised"
    /\ pc \in {"probe_service_bus", "probe_key_vault", "done"}
    /\ pc = "probe_service_bus" <=> conn_results.service_bus.status = "unknown"
    /\ pc = "done" <=> conn_results.key_vault.status # "unknown"
    /\ pc = "done" => outcome = "returned"
    /\ \A svc \in {"service_bus", "key_vault"} :
         /\ conn_results[svc].status \in {"unknown", "healthy", "unhealthy"}
         /\ conn_results[svc].status = "unhealthy" <=>
              conn_results[svc].error # None

\* The Service Bus probe failed and the Key Vault probe was still made and
\* found it reachable.
C10_Witness ==
  /\ op = "test_connections"
  /\ pc = "done"
  /\ conn_results.service_bus.status = "unhealthy"
  /\ conn_results.key_vault.status = "healthy"

ServiceCalls == {"regenerate_keys", "list_keys", "set_secret"}
RuleCallsOf(rule_name) == SelectSeq(calls, LAMBDA c : c.rule = rule_name)
ErrorSet == {results.errors[i] : i \in 1..Len(results.errors)}

\* C11: when the subscription id or the Key Vault URI is not configured,
\* perform_rotation finds that out before it calls Service Bus or Key Vault
\* at all; with the Key Vault URI unset no key is regenerated.
C11_ConfigErrorBeforeAnyCall ==
  (op = "perform_rotation"
     /\ (subscription_id = None \/ key_vault_uri = None)) =>
    \A i \in 1..Len(calls) : calls[i].op \notin ServiceCalls

Ended(rule_name) ==
  /\ rule_status[rule_name] \in {"rotate_raised", "stored", "store_false"}
  /\ OutcomesOf(results, rule_name) + RuleErrorsOf(results, rule_name) = 1

\* C12: within one perform_rotation the rules are processed one after the
\* other: the calls are made in configured rule order, and whenever a call
\* for a rule has been made every rule before it has ended, with its outcome
\* or its error in the report.
C12_RulesSequential ==
  op = "perform_rotation" =>
    \A b \in 1..Len(calls) :
      /\ calls[b].rule \in ConfiguredNames
      /\ \A a \in 1..b :
           Position(calls[a].rule) <= Position(calls[b].rule)
      /\ \A m \in ConfiguredNames :
           Position(m) < Position(calls[b].rule) => Ended(m)

\* The second rule is in the middle of its rotation after the first one
\* ended with a Key Vault error.
C12_Witness ==
  /\ op = "perform_rotation"
  /\ pc = "regenerate_secondary"
  /\ idx = 2
  /\ rule_status["FunctionAppAccess"] = "store_false"

\* C13: an error at any step of rotate_authorization_rule_keys ends the
\* rule for this run: it reaches perform_rotation's handler, the failed call
\* is the last call made for the rule (no later step, no retry), and
\* set_secret is not called for the rule.
C13_RotateErrorTerminal ==
  op = "perform_rotation" =>
    \A n \in RuleNames :
      LET made == RuleCallsOf(n) IN
        /\ \A k \in 1..Len(made) :
             (made[k].op # "set_secret" /\ ~made[k].ok) =>
               /\ k = Len(made)
               /\ rule_status[n] = "rotate_raised"
        /\ rule_status[n] = "rotate_raised" =>
             /\ RotateError(n) \in ErrorSet
             /\ OutcomesOf(results, n) = 0
             /\ \A k \in 1..Len(made) : made[k].op # "set_secret"
             /\ IsPrefix(RotateLog(n), ExpectedRotateLog)
             /\ made # <<>> => ~made[Len(made)].ok
             /\ \A k \in 1..(Len(made) - 1) : made[k].ok

\* The first fetch of the first rule raised: three calls were made for it.
C13_Witness ==
  /\ op = "perform_rotation"
  /\ rule_status["FunctionAppAccess"] = "rotate_raised"
  /\ Len(RuleCallsOf("FunctionAppAccess")) = 3

C14_OutcomeEarned ==
  op = "perform_rotation" =>
    \A i \in 1..Len(results.rules_rotated) :
      LET n == results.rules_rotated[i].rule_name
          made == RuleCallsOf(n) IN
        /\ rule_status[n] = "stored"
        /\ RotateLog(n) = ExpectedRotateLog
        /\ Len(made) = 8
        /\ \A k \in 1..Len(made) : made[k].ok
        /\ made[8] = SetSecretCall(n, TRUE)

C14_OutcomeKept ==
  invocations' = invocations =>
    IsPrefix(results.rules_rotated, results'.rules_rotated)

\* C14: an outcome for a rule is in rules_rotated only if in this
\* invocation both regenerations and both fetches of the rule went through
\* and its secret write returned true; and an outcome once appended is never
\* changed or removed while the invocation runs.
C14_OutcomeOnlyAfterFullSuccess ==
  []C14_OutcomeEarned /\ [][C14_OutcomeKept]_vars

\* Two outcomes are in the report, the second appended after the first.
C14_Witness ==
  /\ op = "perform_rotation"
  /\ Len(results.rules_rotated) = 2
  /\ pc = "loop"

AllSuccessful == \A i \in 1..Len(history) : history[i].success
OkRegenerations(rule_name, key_type) ==
  Len(SelectSeq(calls, LAMBDA c : c = RegenerateCall(rule_name, key_type, TRUE)))

\* C15: rotation is not deduplicated across runs: when every run so far was
\* a successful perform_rotation, each run regenerated the primary and the
\* secondary key of every configured rule once, so after two runs each rule
\* has seen four regenerations and holds the second generation of both
\* keys, and the runs' reports carry different rotation_ids.
C15_NoDedupAcrossRuns ==
  (Returned /\ Len(history) >= 1 /\ AllSuccessful) =>
    /\ \A i, j \in 1..Len(history) :
         i # j => history[i].rotation_id # history[j].rotation_id
    /\ results.rotation_id = history[Len(history)].rotation_id
    /\ \A i \in 1..Len(auth_rules) :
         LET n == auth_rules[i].name IN
           /\ OkRegenerations(n, "PrimaryKey") = 1
           /\ OkRegenerations(n, "SecondaryKey") = 1
           /\ Len(SelectSeq(calls, LAMBDA c :
                  c.rule = n /\ c.op = "regenerate_keys")) = 2
           /\ sb_keys[n].primary + sb_keys[n].secondary = 2 * Len(history)
           /\ sb_keys[n] = [primary |-> Len(history),
                            secondary |-> Len(history)]
           /\ vault[auth_rules[i].secret_name] =
                [rule |-> n, primary |-> Len(history),
                 secondary |-> Len(history)]

\* The second of two successful runs has returned.
C15_Witness ==
  /\ Returned
  /\ Len(history) = 2
  /\ AllSuccessful
  /\ sb_keys["ReadOnlyAccess"] = [primary |-> 2, secondary |-> 2]

HandleNames == {"credential", "servicebus_client", "keyvault_client"}
HandleNow ==
  [h \in HandleNames |->
     CASE h = "credential" -> credential
       [] h = "servicebus_client" -> servicebus_client
       [] OTHER -> keyvault_client]
HandleNext ==
  [h \in HandleNames |->
     CASE h = "credential" -> credential'
       [] h = "servicebus_client" -> servicebus_client'
       [] OTHER -> keyvault_client']

\* The Service Bus client could not be built for the rule just processed.
ClientBuildJustFailed ==
  /\ op = "perform_rotation"
  /\ pc = "loop"
  /\ idx > 1
  /\ rule_status[auth_rules[idx - 1].name] = "rotate_raised"
  /\ RuleCallsOf(auth_rules[idx - 1].name) = <<>>

C16_BuiltAtMostOnce ==
  /\ \A h \in HandleNames :
       /\ constructions[h] <= 1
       /\ HandleNow[h] = None <=> constructions[h] = 0
  /\ ClientBuildJustFailed => servicebus_client = None

C16_HandleReused ==
  \A h \in HandleNames :
    /\ HandleNow[h] # None =>
         (HandleNext[h] = HandleNow[h] /\ constructions'[h] = constructions[h])
    /\ constructions'[h] # constructions[h] =>
         (HandleNow[h] = None /\ HandleNext[h] # None)

\* C16: over any sequence of perform_rotation and test_connections calls
\* on one manager the credential, the Service Bus client and the Key Vault
\* client are each built successfully at most once, on first use, and the
\* stored handle is reused afterwards; a construction that raised leaves
\* the handle unset, so that the next call builds it.
C16_LazyHandlesBuiltOnce ==
  []C16_BuiltAtMostOnce /\ [][C16_HandleReused]_vars

\* In the first invocation the Service Bus client failed to build for the
\* first rule and was built when the second rule asked for it.
C16_Witness ==
  /\ op = "perform_rotation"
  /\ invocations = 1
  /\ idx = 2
  /\ pc = "regenerate_primary"
  /\ rule_status["FunctionAppAccess"] = "rotate_raised"
  /\ RuleCallsOf("FunctionAppAccess") = <<>>
  /\ constructions["servicebus_client"] = 1

Started(t) == handler[t].invoked > 0
OwnOutcome(t, n) == IF handler[t].rule_status[n] = "stored" THEN 1 ELSE 0
OwnError(t, n) ==
  IF handler[t].rule_status[n] \in {"rotate_raised", "store_false"}
    THEN 1 ELSE 0
OwnCritical(t) ==
  IF \E n \in RuleNames : handler[t].rule_status[n] = "escaped" THEN 1 ELSE 0

\* C17: when two perform_rotation invocations on the same manager
\* interleave, the report of each holds exactly the outcomes and errors its
\* own rule processing produced, nothing of the other's, under its own
\* rotation_id.
C17_ReportsIndependent ==
  \A t \in Handlers :
    Started(t) =>
      /\ RotationDisabled => handler[t].results.errors = <<DisabledError>>
      /\ ~RotationDisabled =>
           /\ \A n \in RuleNames :
                /\ OutcomesOf(handler[t].results, n) = OwnOutcome(t, n)
                /\ RuleErrorsOf(handler[t].results, n) = OwnError(t, n)
           /\ Len(SelectSeq(handler[t].results.errors,
                            LAMBDA e : ~RuleLevel(e))) = OwnCritical(t)
      /\ \A u \in Handlers \ {t} :
           Started(u) =>
             handler[u].results.rotation_id # handler[t].results.rotation_id

\* Both invocations ran interleaved: the timer's rotated its first rule
\* while the manual one's was still working on it, and the manual one's
\* then failed.
C17_Witness ==
  /\ handler["timer"].rule_status["FunctionAppAccess"] = "stored"
  /\ handler["manual"].rule_status["FunctionAppAccess"] = "rotate_raised"
  /\ handler["timer"].pc = "sleep_grace"
  /\ handler["manual"].pc = "regenerate_primary"

\* C18: the timer handler and the manual handler never have rotation
\* sequences for the same authorization rule in progress at the same time.
C18_NoSimultaneousRotation ==
  ~ ( /\ InRotation("timer")
      /\ InRotation("manual")
      /\ Cur("timer").name = Cur("manual").name )

\* C19: manual_rotation calls perform_rotation exactly once per request and
\* answers with the whole report as body, with status 200 exactly when the
\* report's success is true and 500 otherwise, also when perform_rotation
\* raised.
C19_ManualResponse ==
  LET h == handler["manual"] IN
    /\ h.invoked <= 1
    /\ h.pc # "idle" => h.invoked = 1
    /\ h.pc = "responded" =>
         /\ h.response.status_code \in {200, 500}
         /\ h.outcome = "returned" =>
              /\ h.response.body = json_dumps(h.results)
              /\ h.response.status_code = 200 <=> h.results.success
         /\ h.outcome # "returned" => h.response.status_code = 500

\* A request answered 500 with a report that has an outcome and an error.
C19_Witness ==
  /\ handler["manual"].pc = "responded"
  /\ handler["manual"].response.status_code = 500
  /\ Len(handler["manual"].results.rules_rotated) = 1
  /\ Len(handler["manual"].results.errors) = 1

\* C20: a timer trigger calls perform_rotation exactly once, does not call
\* it again after a run that failed, and the handler ends normally whatever
\* perform_rotation handed back.
C20_TimerRunsOnce ==
  LET h == handler["timer"] IN
    /\ h.invoked <= 1
    /\ h.pc # "idle" => h.invoked = 1
    /\ h.pc \in {"returned", "responded"} => h.outcome = "returned"
    /\ h.pc = "responded" => h.response = [status_code |-> 0, body |-> <<>>]

\* The timer's run came back unsuccessful and the handler has ended.
C20_Witness ==
  /\ handler["timer"].pc = "responded"
  /\ handler["timer"].invoked = 1
  /\ ~handler["timer"].results.success
  /\ Len(handler["timer"].results.errors) = 2


RECURSIVE SumSecs(_)
SumSecs(s) == IF s = <<>> THEN 0 ELSE Head(s).secs + SumSecs(Tail(s))
\* Seconds the running invocation has slept while working on a rule.
SleptFor(rule_name) ==
  SumSecs(SelectSeq(calls, LAMBDA c : c.op = "sleep" /\ c.rule = rule_name))
SleptInAll == SumSecs(SelectSeq(calls, LAMBDA c : c.op = "sleep"))
RuleDelay == PropagationDelay + GraceDelay + PropagationDelay

SecretNameOf(rule_name) ==
  auth_rules[CHOOSE i \in 1..Len(auth_rules) :
               auth_rules[i].name = rule_name].secret_name
\* The store holds the connection string built from the rule's present
\* primary key.
StoreIsCurrent(rule_name) ==
  /\ vault[SecretNameOf(rule_name)].rule = rule_name
  /\ vault[SecretNameOf(rule_name)].primary = sb_keys[rule_name].primary

\* C22: no run leaves a rule partially rotated: when perform_rotation has
\* ended, for every configured rule either none of its keys was regenerated
\* in this run, or both were and the secret store holds the rule's current
\* primary connection string.
C22_NoPartialRotation ==
  Returned =>
    \A n \in ConfiguredNames :
      \/ /\ OkRegenerations(n, "PrimaryKey") = 0
         /\ OkRegenerations(n, "SecondaryKey") = 0
      \/ /\ OkRegenerations(n, "PrimaryKey") = 1
         /\ OkRegenerations(n, "SecondaryKey") = 1
         /\ StoreIsCurrent(n)

HealthAnswered ==
  /\ op = "test_connections"
  /\ pc = "done"
  /\ health.answered = invocations
ProbeHealthy(name) == conn_results[name].status = "healthy"

\* C23: rotation_health answers 200 with status "healthy" exactly when the
\* Service Bus probe and the Key Vault probe both reported healthy, and 503
\* with status "unhealthy" in every other case.
C23_HealthStatus ==
  HealthAnswered =>
    LET both == ProbeHealthy("service_bus") /\ ProbeHealthy("key_vault")
        body == health.response.body[2] IN
      /\ health.response.status_code = IF both THEN 200 ELSE 503
      /\ body.status = IF both THEN "healthy" ELSE "unhealthy"
      /\ health.response.status_code = 200 <=> body.status = "healthy"
      /\ both <=> calls = <<GetNamespaceCall(TRUE), ListSecretsCall(TRUE)>>

\* A request answered 503 although the Service Bus probe was healthy.
C23_Witness ==
  /\ HealthAnswered
  /\ ProbeHealthy("service_bus")
  /\ ~ProbeHealthy("key_vault")
  /\ health.response.status_code = 503

SendReturned == sbm.pc = "returned" \/ (sbm.pc = "idle" /\ sbm.triggers > 0)

\* C24: send_message never raises: it returns True only when the message
\* was handed to the queue sender without error, and False when the
\* connection string is missing, the import or the client construction
\* fails, or sending fails.  policy_notification_timer calls it once per
\* trigger and ends normally also when it returned False.
C24_SendMessageNeverRaises ==
  /\ sbm.ret \in {"none", "true", "false"}
  /\ sbm.send_calls <= 1
  /\ sbm.pc # "idle" => sbm.send_calls = 1
  /\ SendReturned =>
       /\ sbm.ret # "none"
       /\ sbm.send_calls = 1
       /\ sbm.ret = "true" <=> sbm.failure = ""
       /\ sbm.ret = "true" => sbm.handed /\ sbm.client # None /\ sbm.imported
       /\ sbm.connection_string \in {None, ""} =>
            sbm.ret = "false" /\ sbm.queue = 0
  /\ sbm.pc = "idle" /\ sbm.triggers > 0 => sbm.ended = "normally"
  /\ sbm.queue <= sbm.triggers

\* Two triggers have ended: the first message went out, the second send
\* failed in send_messages and the handler still ended normally.
C24_Witness ==
  /\ sbm.pc = "idle"
  /\ sbm.triggers = 2
  /\ sbm.queue = 1
  /\ sbm.ret = "false"
  /\ sbm.failure = "send"
  /\ sbm.ended = "normally"

RequiredFields == {"displayName", "description", "mode", "policyRule"}
AllowedModes == {"All", "Indexed", "Microsoft.KeyVault.Data",
                 "Microsoft.ContainerService.Data",
                 "Microsoft.Kubernetes.Data"}
Given == policy_check.policy
Has(field) == field \in DOMAIN Given
ModeAllowed == Given["mode"].type = "str" /\ Given["mode"].text \in AllowedModes
RuleComplete ==
  /\ Given["policyRule"].type = "dict"
  /\ {"if", "then"} \subseteq Given["policyRule"].keys
ErrorsOfKind(kinds) ==
  Len(SelectSeq(policy_check.errors, LAMBDA e : e.kind \in kinds))
Count(b) == IF b THEN 1 ELSE 0

\* C25: validate_policy_structure returns no error exactly when the policy
\* has displayName, description, mode and policyRule, its mode is one of
\* the five allowed ones and its policyRule is an object with `if` and
\* `then`; otherwise it returns one "Missing required field" error for
\* each absent required field, plus one error for a present mode that is
\* not allowed, plus one error for a present policyRule that is no object
\* or lacks `if` or `then`.
C25_PolicyStructureErrors ==
  policy_check.pc = "validated" =>
    /\ policy_check.errors = <<>> <=>
         /\ \A f \in RequiredFields : Has(f)
         /\ ModeAllowed
         /\ RuleComplete
    /\ \A f \in RequiredFields :
         Len(SelectSeq(policy_check.errors,
                       LAMBDA e : e = MissingField(f))) = Count(~Has(f))
    /\ ErrorsOfKind({"missing"}) = Cardinality(RequiredFields \ DOMAIN Given)
    /\ ErrorsOfKind({"mode"}) = Count(Has("mode") /\ ~ModeAllowed)
    /\ ErrorsOfKind({"rule_not_object", "rule_if_then"})
         = Count(Has("policyRule") /\ ~RuleComplete)
    /\ Len(policy_check.errors)
         = ErrorsOfKind({"missing"}) + ErrorsOfKind({"mode"})
             + ErrorsOfKind({"rule_not_object", "rule_if_then"})

\* A policy without description, with a mode in the wrong case and a rule
\* without `then`: three errors.
C25_Witness ==
  /\ policy_check.pc = "validated"
  /\ ~Has("description")
  /\ Has("mode") /\ Given["mode"] = JsonString("all")
  /\ Has("policyRule") /\ Given["policyRule"] = JsonDict({"if"})
  /\ Has("displayName")
  /\ Len(policy_check.errors) = 3

\* What the namespace answers to list_keys for a rule at this moment.
Listing(rule_name) ==
  [rule |-> rule_name, primary |-> sb_keys[rule_name].primary,
   secondary |-> sb_keys[rule_name].secondary]
Stored(rule_name) ==
  op = "perform_rotation" /\ rule_status[rule_name] = "stored"

\* C26: the value perform_rotation writes for a rule is the primary
\* connection string of the final key fetch, the one made after the
\* secondary key was regenerated, not of the first fetch; and it is written
\* under the secret_name configured for that rule.  (The store entry keeps
\* the whole listing the connection string was taken from, which tells the
\* two fetches apart.)
C26_FinalFetchStored ==
  /\ \A n \in RuleNames :
       Stored(n) =>
         /\ vault[SecretNameOf(n)] = Listing(n)
         /\ OkRegenerations(n, "SecondaryKey") = 1
         /\ vault[SecretNameOf(n)].secondary > 0
  /\ \A i \in 1..3 :
       LET rule == AuthRulesFor(TRUE)[i] IN
         vault[rule.secret_name].rule \in {"", rule.name}
  /\ pc = "set_secret" => keys = Listing(CurrentRule.name)

\* The second rule's secret has been written in the second run.
C26_Witness ==
  /\ Stored("ReadOnlyAccess")
  /\ invocations = 2
  /\ vault[ReadOnlyAccess.secret_name] =
       [rule |-> "ReadOnlyAccess", primary |-> 2, secondary |-> 2]

Events(ev) == SelectSeq(retry.trace, LAMBDA e : e.ev = ev)
Attempts == SelectSeq(retry.trace, LAMBDA e : e.ev \in {"returned", "raised"})
RetryDone == retry.pc = "done"

\* C27: with max_retries = n >= 0 the wrapped function is called at most
\* n + 1 times per wrapper call; the wrapper returns at the first attempt
\* that succeeds and calls no further one, re-raises after the (n+1)-th
\* failure in a row, and sleeps delay_seconds * backoff_multiplier^k after
\* failed attempt k+1 only when another attempt follows.
C27_RetryAtMostNPlusOne ==
  retry.max_retries >= 0 =>
    /\ Len(Attempts) <= retry.max_retries + 1
    /\ \A i \in 1..Len(retry.trace) :
         LET e == retry.trace[i] IN
           /\ e.ev = "returned" => i = Len(retry.trace) /\ RetryDone
           /\ e.ev = "sleep" =>
                /\ i > 1 /\ retry.trace[i - 1].ev = "raised"
                /\ e.n = retry.delay_seconds
                           * Power(retry.backoff_multiplier,
                                   retry.trace[i - 1].n)
                /\ i < Len(retry.trace) \/ retry.pc \in {"loop", "call"}
           /\ e.ev = "raised" /\ i < Len(retry.trace) =>
                retry.trace[i + 1].ev = "sleep"
           /\ e.ev # "sleep" => e.n = Len(SelectSeq(SubSeq(retry.trace, 1, i - 1),
                                       LAMBDA f : f.ev # "sleep"))
    /\ RetryDone =>
         /\ retry.result \in {"returned", "reraised"}
         /\ retry.result = "returned" <=> Len(Events("returned")) = 1
         /\ retry.result = "reraised" <=>
              /\ Len(Events("raised")) = retry.max_retries + 1
              /\ Len(Events("returned")) = 0
         /\ Len(Events("sleep")) = Len(Attempts) - 1
         /\ retry.trace[Len(retry.trace)].ev # "sleep"

\* max_retries = 3: three failures with sleeps of 2, 6 and 18, then the
\* fourth attempt fails and the exception is re-raised.
C27_Witness ==
  /\ RetryDone
  /\ retry.max_retries = 3
  /\ retry.result = "reraised"
  /\ Len(Attempts) = 4
  /\ Events("sleep") = << [ev |-> "sleep", n |-> 2], [ev |-> "sleep", n |-> 6],
                          [ev |-> "sleep", n |-> 18] >>

\* C28: for every integer max_retries the retry loop ends by returning a
\* result or re-raising the wrapped function's exception; the trailing
\* RuntimeError is never reached.
C28_LoopNeverFallsThrough ==
  /\ retry.result # "runtime_error"
  /\ RetryDone => retry.result \in {"returned", "reraised"}

ErrorNames == [i \in 1..Len(results.errors) |-> results.errors[i].rule]
InConfiguredOrder(names) ==
  \A i, j \in 1..Len(names) :
    /\ names[i] \in ConfiguredNames
    /\ i < j => Position(names[i]) < Position(names[j])

\* C29: when rotation is enabled and no error escapes the per-rule
\* handler, the returned report has exactly one entry per configured rule,
\* len(rules_rotated) + len(errors) = len(configured rules), and the
\* outcomes and the errors each appear in configured-rule order.
C29_OneEntryPerRule ==
  (Returned /\ rotation_enabled /\ ~Escaped) =>
    /\ Len(results.rules_rotated) + Len(results.errors) = Len(auth_rules)
    /\ \A n \in ConfiguredNames :
         OutcomesOf(results, n) + RuleErrorsOf(results, n) = 1
    /\ \A i \in 1..Len(results.errors) : RuleLevel(results.errors[i])
    /\ InConfiguredOrder(RotatedNames)
    /\ InConfiguredOrder(ErrorNames)

\* Three rules: the first failed in rotation, the second was rotated and
\* stored, the third failed in the store.
C29_Witness ==
  /\ Returned
  /\ Len(auth_rules) = 3
  /\ RotatedNames = <<"ReadOnlyAccess">>
  /\ results.errors = <<RotateError("FunctionAppAccess"),
                        KeyVaultError("AdminAccess")>>

\* Timer handlers of the app that have passed their increment.
Incremented(a) ==
  counters.triggered[a]
    - Cardinality({t \in Threads : /\ counters.thread[t].app = a
                                   /\ counters.thread[t].pc
                                        \in {"load", "store"}})

\* C30: the counters count timer triggers exactly: whatever the
\* interleaving, rotation_counter and message_counter equal the number of
\* timer handler invocations that have incremented them, with no update
\* lost.
C30_CountersExact ==
  \A a \in Apps : counters.value[a] = Incremented(a)
====
